---- MODULE Spec2Model ----
(***************************************************************************)
(* A model of the aitomate command-line assistant: the reply interpreter   *)
(* (_extract_json_object), the orchestration loop (main and                *)
(* process_assistant), the confirmation gate (_confirm_tool), the RPC      *)
(* bridge (_call_tool_async, _normalize_result), the worker's             *)
(* capabilities as seen through their results, and the standalone loop     *)
(* run_agent.                                                              *)
(***************************************************************************)
EXTENDS Integers, Sequences, FiniteSets, TLC

VARIABLES
    \* _extract_json_object (src/cli_agent.py:89-123)
    text, objAt, start, idx, depth, in_string, escape, cand, result, xpc,
    \* _normalize_result (src/mcp_client.py:32-60): its argument, its outcome
    wreply, nresult, npc,
    \* main and process_assistant (src/cli_agent.py:201-301)
    messages, pc, reply, tool_name, args, choice, crash,
    \* the outcome of the call func(args) on its way back to process_assistant
    pending,
    \* the worker sessions open now; those opened, and the calls sent, by the
    \* current invocation
    openSessions, opened, sent,
    \* capability invocations for the current reply; model requests of the
    \* session
    invoked, requests,
    \* the transcript as the latest model request carried it; the tool results
    \* recorded so far, in order
    snapshot, results,
    \* the line main or process_assistant printed last; what the host did under
    \* the worker's tool in the current call
    shown, host_did,
    \* run_agent (src/agent.py:47-86): the prompt of its next model request,
    \* and its position
    task, apc

scanVars == <<text, objAt, start, idx, depth, in_string, escape, cand, result, xpc>>

normVars == <<wreply, nresult, npc>>

orchVars == <<messages, pc, reply, tool_name, args, choice, crash, pending, openSessions,
              opened, sent, invoked, requests, snapshot, results, shown, host_did>>

agentVars == <<task, apc>>

vars == <<scanVars, normVars, orchVars, agentVars>>

(***************************************************************************)
(* Characters.  A text is a sequence of one-character strings.             *)
(***************************************************************************)
LB == "{"
RB == "}"
QT == "\""
BS == "\\"
CL == ":"
CM == ","
LX == "x"
D1 == "1"

\* The characters of the texts the interpreter is run on.
Alphabet == {LB, RB, QT, BS, CL, CM, LX, D1}

\* The characters of the prose placed around an object.
ProseAlphabet == {LB, RB, QT, BS, LX}

\* Longest prose before and after the embedded object.
MaxPre == 3
MaxPost == 1

(***************************************************************************)
(* json.loads, on the alphabet above: objects, strings with the escapes    *)
(* \" and \\ (any other escape is a decode error), and numbers written     *)
(* with the digit 1.  A value is [t |-> tag, v |-> payload]; an object's   *)
(* payload is the function from its keys to its values (a later duplicate  *)
(* key wins, as in a Python dict).                                         *)
(***************************************************************************)
NoneVal == [t |-> "none", v |-> << >>]

ParseFail == [ok |-> FALSE, val |-> NoneVal, pos |-> 0]

RECURSIVE ParseStringFrom(_, _, _)
\* s[i] is the first character after the opening quote; acc is the decoded text.
ParseStringFrom(s, i, acc) ==
    IF i > Len(s) THEN ParseFail
    ELSE IF s[i] = QT THEN [ok |-> TRUE, val |-> [t |-> "str", v |-> acc], pos |-> i + 1]
    ELSE IF s[i] = BS
         THEN IF i + 1 <= Len(s) /\ s[i + 1] \in {QT, BS}
              THEN ParseStringFrom(s, i + 2, Append(acc, s[i + 1]))
              ELSE ParseFail
    ELSE ParseStringFrom(s, i + 1, Append(acc, s[i]))

RECURSIVE DigitsEnd(_, _)
\* The position after the run of digits that starts at i.
DigitsEnd(s, i) ==
    IF i <= Len(s) /\ s[i] = D1 THEN DigitsEnd(s, i + 1) ELSE i

RECURSIVE ParseValue(_, _)
RECURSIVE ParseMembers(_, _, _)

\* s[i] is the first character of a member; acc holds the members read so far.
ParseMembers(s, i, acc) ==
    IF i > Len(s) \/ s[i] # QT THEN ParseFail
    ELSE LET k == ParseStringFrom(s, i + 1, << >>) IN
         IF ~k.ok \/ k.pos > Len(s) \/ s[k.pos] # CL THEN ParseFail
         ELSE LET m == ParseValue(s, k.pos + 1) IN
              IF ~m.ok \/ m.pos > Len(s) THEN ParseFail
              ELSE LET key == k.val.v
                       more == [x \in (DOMAIN acc) \cup {key} |->
                                   IF x = key THEN m.val ELSE acc[x]]
                   IN IF s[m.pos] = RB
                      THEN [ok |-> TRUE, val |-> [t |-> "obj", v |-> more],
                            pos |-> m.pos + 1]
                      ELSE IF s[m.pos] = CM
                           THEN ParseMembers(s, m.pos + 1, more)
                           ELSE ParseFail

ParseValue(s, i) ==
    IF i > Len(s) THEN ParseFail
    ELSE IF s[i] = QT THEN ParseStringFrom(s, i + 1, << >>)
    ELSE IF s[i] = D1
         THEN [ok |-> TRUE, val |-> [t |-> "num", v |-> SubSeq(s, i, DigitsEnd(s, i) - 1)],
               pos |-> DigitsEnd(s, i)]
    ELSE IF s[i] = LB
         THEN IF i + 1 <= Len(s) /\ s[i + 1] = RB
              THEN [ok |-> TRUE, val |-> [t |-> "obj", v |-> << >>], pos |-> i + 2]
              ELSE ParseMembers(s, i + 1, << >>)
    ELSE ParseFail

\* json.loads(s): the value, or a JSONDecodeError (ok = FALSE).
JsonLoads(s) ==
    LET r == ParseValue(s, 1) IN
    IF r.ok /\ r.pos = Len(s) + 1 THEN r ELSE ParseFail

(***************************************************************************)
(* _extract_json_object, one loop iteration per step.  Positions are       *)
(* 1-based; position 0 stands for str.find's -1.                           *)
(***************************************************************************)
RECURSIVE Find(_, _, _)
\* text.find(ch, from): the first position >= from holding ch, else 0.
Find(s, ch, from) ==
    IF from > Len(s) THEN 0
    ELSE IF s[from] = ch THEN from
    ELSE Find(s, ch, from + 1)

\* ScanChar with the escape flag never set: a backslash inside a string is an
\* ordinary character, so \" ends the string.
ScanCharNoEscape(char, st) ==
    IF st.in_string
    THEN [depth |-> st.depth, in_string |-> char # QT, escape |-> FALSE, closed |-> FALSE]
    ELSE IF char = QT
         THEN [depth |-> st.depth, in_string |-> TRUE, escape |-> st.escape, closed |-> FALSE]
         ELSE IF char = LB
              THEN [depth |-> st.depth + 1, in_string |-> FALSE, escape |-> st.escape,
                    closed |-> FALSE]
              ELSE IF char = RB
                   THEN [depth |-> st.depth - 1, in_string |-> FALSE, escape |-> st.escape,
                         closed |-> st.depth - 1 = 0]
                   ELSE [depth |-> st.depth, in_string |-> FALSE, escape |-> st.escape,
                         closed |-> FALSE]

\* ScanChar with the string test after the brace tests: braces count everywhere.
ScanCharBracesInStrings(char, st) ==
    LET d == IF char = LB THEN st.depth + 1
             ELSE IF char = RB THEN st.depth - 1 ELSE st.depth
        ins == IF st.in_string
               THEN st.escape \/ char # QT
               ELSE char = QT
        esc == st.in_string /\ ~st.escape /\ char = BS
    IN [depth |-> d, in_string |-> ins, escape |-> esc, closed |-> char = RB /\ d = 0]

\* One pass of the for loop's body up to the depth test, on the scanner's
\* state st = [depth, in_string, escape]; closed: a "}" brought depth to 0.
ScanChar(char, st) ==
    IF st.in_string
    THEN IF st.escape
         THEN [depth |-> st.depth, in_string |-> TRUE, escape |-> FALSE, closed |-> FALSE]
         ELSE IF char = BS
              THEN [depth |-> st.depth, in_string |-> TRUE, escape |-> TRUE, closed |-> FALSE]
              ELSE IF char = QT
                   THEN [depth |-> st.depth, in_string |-> FALSE, escape |-> FALSE,
                         closed |-> FALSE]
                   ELSE [depth |-> st.depth, in_string |-> TRUE, escape |-> FALSE,
                         closed |-> FALSE]
    ELSE IF char = QT
         THEN [depth |-> st.depth, in_string |-> TRUE, escape |-> st.escape, closed |-> FALSE]
         ELSE IF char = LB
              THEN [depth |-> st.depth + 1, in_string |-> FALSE, escape |-> st.escape,
                    closed |-> FALSE]
              ELSE IF char = RB
                   THEN [depth |-> st.depth - 1, in_string |-> FALSE, escape |-> st.escape,
                         closed |-> st.depth - 1 = 0]
                   ELSE [depth |-> st.depth, in_string |-> FALSE, escape |-> st.escape,
                         closed |-> FALSE]

\* The while loop's head for the candidate start s: scan from s, or return None.
EnterStart(s) ==
    /\ start' = s
    /\ IF s = 0
       THEN /\ xpc' = "done"
            /\ result' = NoneVal
            /\ UNCHANGED <<idx, depth, in_string, escape>>
       ELSE /\ xpc' = "scan"
            /\ idx' = s
            /\ depth' = 0
            /\ in_string' = FALSE
            /\ escape' = FALSE
            /\ UNCHANGED result

\* start = text.find("{")
ExtractBegin ==
    /\ xpc = "call"
    /\ EnterStart(Find(text, LB, 1))
    /\ UNCHANGED <<text, objAt, cand>>
    /\ UNCHANGED <<normVars, orchVars, agentVars>>

\* One iteration of the for loop.
ScanStep ==
    /\ xpc = "scan"
    /\ idx <= Len(text)
    /\ LET st == ScanChar(text[idx],
                          [depth |-> depth, in_string |-> in_string, escape |-> escape])
       IN IF st.closed
          THEN /\ cand' = <<start, idx>>
               /\ IF JsonLoads(SubSeq(text, start, idx)).ok
                  THEN /\ result' = JsonLoads(SubSeq(text, start, idx)).val
                       /\ xpc' = "done"
                       /\ depth' = st.depth
                       /\ UNCHANGED <<start, idx, in_string, escape>>
                  ELSE EnterStart(Find(text, LB, start + 1))
          ELSE /\ idx' = idx + 1
               /\ depth' = st.depth
               /\ in_string' = st.in_string
               /\ escape' = st.escape
               /\ UNCHANGED <<start, cand, result, xpc>>
    /\ UNCHANGED <<text, objAt>>
    /\ UNCHANGED <<normVars, orchVars, agentVars>>

\* The for loop ran off the end of the text: try the next "{".
ScanExhausted ==
    /\ xpc = "scan"
    /\ idx > Len(text)
    /\ EnterStart(Find(text, LB, start + 1))
    /\ UNCHANGED <<text, objAt, cand>>
    /\ UNCHANGED <<normVars, orchVars, agentVars>>

(***************************************************************************)
(* The texts the interpreter is run on: one object out of a pool, with     *)
(* prose before and after it.                                              *)
(***************************************************************************)
\* {"x":1}
ObjPlain == <<LB, QT, LX, QT, CL, D1, RB>>
\* {"x":"}"}
ObjBraceInString == <<LB, QT, LX, QT, CL, QT, RB, QT, RB>>
\* {"x":"\"{"}
ObjEscapedQuote == <<LB, QT, LX, QT, CL, QT, BS, QT, LB, QT, RB>>
\* {"x":"\\"}
ObjEscapedBackslash == <<LB, QT, LX, QT, CL, QT, BS, BS, QT, RB>>
\* {"x":"{\"x\":1}"}
ObjJsonInString ==
    <<LB, QT, LX, QT, CL, QT, LB, BS, QT, LX, BS, QT, CL, D1, RB, QT, RB>>
\* {}
ObjEmpty == <<LB, RB>>
\* {"x":{}}
ObjNested == <<LB, QT, LX, QT, CL, LB, RB, RB>>

Objects == {ObjPlain, ObjBraceInString, ObjEscapedQuote, ObjEscapedBackslash,
            ObjJsonInString, ObjEmpty, ObjNested}

NoText == [has |-> FALSE, v |-> ""]
NoResource == [has |-> FALSE, text |-> NoText]
NoPayload == [has |-> FALSE, v |-> NoneVal]
NoExc == [type |-> "", msg |-> ""]

Returned(v) == [kind |-> "return", val |-> v, exc |-> NoExc]
Raised(type, msg) == [kind |-> "raise", val |-> NoneVal, exc |-> [type |-> type, msg |-> msg]]
NoOutcome == [kind |-> "none", val |-> NoneVal, exc |-> NoExc]

JStr(s) == [t |-> "str", v |-> s]
JNum(n) == [t |-> "num", v |-> n]
JList(l) == [t |-> "list", v |-> l]
JDict(r) == [t |-> "dict", v |-> r]
JNull == [t |-> "null", v |-> << >>]
EmptyDict == JDict(<< >>)

NoReply == [whole |-> FALSE, data |-> [t |-> "unset", v |-> << >>]]

NoChoice == <<"<no answer>">>

NoCrash == [exc |-> "", at |-> ""]

\* A printed line: which print call, and the value it formats.
Line(kind, v) == [kind |-> kind, v |-> v]
NoLine == Line("none", NoneVal)
NoEnv == "none"

OrchIdle ==
    /\ messages = << >>
    /\ pc = "idle"
    /\ reply = NoReply
    /\ tool_name = JNull
    /\ args = EmptyDict
    /\ choice = NoChoice
    /\ pending = NoOutcome
    /\ openSessions = 0
    /\ opened = 0
    /\ sent = 0
    /\ invoked = 0
    /\ requests = 0
    /\ snapshot = << >>
    /\ results = << >>
    /\ crash = NoCrash
    /\ shown = NoLine
    /\ host_did = NoEnv

\* run_agent is not running
NoTask == [kind |-> "none", v |-> NoneVal]

AgentIdle ==
    /\ task = NoTask
    /\ apc = "idle"

ScanIdle ==
    /\ text = << >>
    /\ objAt = <<0, 0>>
    /\ start = 0
    /\ idx = 0
    /\ depth = 0
    /\ in_string = FALSE
    /\ escape = FALSE
    /\ cand = <<0, 0>>
    /\ result = NoneVal
    /\ xpc = "idle"

NormIdle ==
    /\ wreply = [isError |-> FALSE, structuredContent |-> NoPayload, content |-> << >>]
    /\ nresult = NoOutcome
    /\ npc = "idle"

RECURSIVE SeqsUpTo(_, _)
\* The sequences over S of length at most n.
SeqsUpTo(S, n) ==
    IF n = 0 THEN {<< >>}
    ELSE LET shorter == SeqsUpTo(S, n - 1) IN
         shorter \cup {Append(s, c) : s \in shorter, c \in S}

InitExtract ==
    /\ \E pre \in SeqsUpTo(ProseAlphabet, MaxPre), post \in SeqsUpTo(ProseAlphabet, MaxPost),
          obj \in Objects :
          /\ text = pre \o obj \o post
          /\ objAt = <<Len(pre) + 1, Len(pre) + Len(obj)>>
    /\ start = 0
    /\ idx = 0
    /\ depth = 0
    /\ in_string = FALSE
    /\ escape = FALSE
    /\ cand = <<0, 0>>
    /\ result = NoneVal
    /\ xpc = "call"
    /\ NormIdle
    /\ OrchIdle
    /\ AgentIdle

NextExtract == ExtractBegin \/ ScanStep \/ ScanExhausted

SpecExtract == InitExtract /\ [][NextExtract]_vars

(***************************************************************************)
(* The RPC bridge's normalisation of a worker reply (_normalize_result).   *)
(* A reply is [isError, structuredContent, content]; a content block is    *)
(* [type, text, resource], its resource [has, text] with text [has, v].    *)
(***************************************************************************)
TextBlock(t) == [type |-> "text", text |-> t, resource |-> NoResource]
ResourceBlock(r) == [type |-> "resource", text |-> "", resource |-> r]
ImageBlock == [type |-> "image", text |-> "", resource |-> NoResource]

\* One pass of the loop over result.content: the value appended to blocks.
ReduceBlock(block) ==
    IF block.type = "text"
    THEN [t |-> "str", v |-> block.text]
    ELSE IF block.type = "resource"
         THEN IF ~block.resource.has
              THEN [t |-> "dump", v |-> [of |-> "block", src |-> block]]
              ELSE IF block.resource.text.has
                   THEN [t |-> "str", v |-> block.resource.text.v]
                   ELSE [t |-> "dump", v |-> [of |-> "resource", src |-> block.resource]]
         ELSE [t |-> "dump", v |-> [of |-> "block", src |-> block]]

\* NormalizeResult without the single-block case: one block comes back as a
\* list of one.
NormalizeResultAlwaysList(r) ==
    IF r.isError
    THEN Raised("RuntimeError", "Tool call failed: <dump of the reply>")
    ELSE IF r.structuredContent.has
         THEN Returned(r.structuredContent.v)
         ELSE LET blocks == [i \in 1 .. Len(r.content) |-> ReduceBlock(r.content[i])] IN
              IF Len(blocks) = 0 THEN Returned(NoneVal)
              ELSE Returned([t |-> "list", v |-> blocks])

\* NormalizeResult that looks at the structured payload before the error flag.
NormalizeResultPayloadFirst(r) ==
    IF r.structuredContent.has
    THEN Returned(r.structuredContent.v)
    ELSE IF r.isError
         THEN Raised("RuntimeError", "Tool call failed: <dump of the reply>")
         ELSE LET blocks == [i \in 1 .. Len(r.content) |-> ReduceBlock(r.content[i])] IN
              IF Len(blocks) = 0 THEN Returned(NoneVal)
              ELSE IF Len(blocks) = 1 THEN Returned(blocks[1])
              ELSE Returned([t |-> "list", v |-> blocks])

\* _normalize_result(result)
NormalizeResult(r) ==
    IF r.isError
    THEN Raised("RuntimeError", "Tool call failed: <dump of the reply>")
    ELSE IF r.structuredContent.has
         THEN Returned(r.structuredContent.v)
         ELSE LET blocks == [i \in 1 .. Len(r.content) |-> ReduceBlock(r.content[i])] IN
              IF Len(blocks) = 0 THEN Returned(NoneVal)
              ELSE IF Len(blocks) = 1 THEN Returned(blocks[1])
              ELSE Returned([t |-> "list", v |-> blocks])

\* The content blocks and replies _normalize_result is run on.
MaxBlocks == 3

Blocks == {TextBlock("a"), TextBlock("b"),
           ResourceBlock([has |-> TRUE, text |-> [has |-> TRUE, v |-> "c"]]),
           ResourceBlock([has |-> TRUE, text |-> NoText]),
           ResourceBlock(NoResource),
           ImageBlock}

Payloads == {NoPayload, [has |-> TRUE, v |-> [t |-> "dict", v |-> [status |-> "ok"]]]}

WorkerReplies ==
    [isError : BOOLEAN, structuredContent : Payloads, content : SeqsUpTo(Blocks, MaxBlocks)]

NormalizeCall ==
    /\ npc = "call"
    /\ nresult' = NormalizeResult(wreply)
    /\ npc' = "done"
    /\ UNCHANGED wreply
    /\ UNCHANGED <<scanVars, orchVars, agentVars>>

InitNormalize ==
    /\ ScanIdle
    /\ wreply \in WorkerReplies
    /\ nresult = NoOutcome
    /\ npc = "call"
    /\ OrchIdle
    /\ AgentIdle

NextNormalize == NormalizeCall

SpecNormalize == InitNormalize /\ [][NextNormalize]_vars

(***************************************************************************)
(* Lines typed at the prompts: sequences of characters, normalised by      *)
(* str.strip() and str.lower().                                            *)
(***************************************************************************)
RECURSIVE StripLeft(_)
StripLeft(s) == IF s # << >> /\ Head(s) = " " THEN StripLeft(Tail(s)) ELSE s

RECURSIVE StripRight(_)
StripRight(s) ==
    IF s # << >> /\ s[Len(s)] = " " THEN StripRight(SubSeq(s, 1, Len(s) - 1)) ELSE s

\* str.strip()
Strip(s) == StripRight(StripLeft(s))

LowerChar(c) ==
    CASE c = "Y" -> "y"
      [] c = "E" -> "e"
      [] c = "S" -> "s"
      [] c = "N" -> "n"
      [] c = "O" -> "o"
      [] c = "Q" -> "q"
      [] c = "U" -> "u"
      [] c = "I" -> "i"
      [] c = "T" -> "t"
      [] c = "X" -> "x"
      [] OTHER -> c

\* str.lower()
Lower(s) == [i \in 1 .. Len(s) |-> LowerChar(s[i])]

\* The lines a user types at "you> ".
UserLines == {<< >>, <<" ">>, <<"e", "x", "i", "t">>, <<" ", "Q", "u", "i", "t">>,
              <<"h", "i">>, <<" ", "h", "i", " ">>}

\* The lines a user types at the confirmation prompt.
Answers == {<<"y">>, <<"y", "e", "s">>, <<"Y">>, <<" ", "Y", "e", "s", " ">>,
            <<"n">>, <<"n", "o">>, <<"N">>, <<"N", "O">>, << >>, <<" ">>,
            <<"o", "k">>, <<"y", "e", "p">>}

(***************************************************************************)
(* Model replies.  A reply is [whole, data]: whether json.loads reads the  *)
(* whole text, and the value read (by json.loads or, failing that, by      *)
(* _extract_json_object; NoneVal when neither finds an object).  JSON      *)
(* values are [t |-> tag, v |-> payload]; a dict's payload is a record.    *)
(***************************************************************************)
Keys(d) == IF d.t = "dict" THEN DOMAIN d.v ELSE {}

\* Python truthiness of a JSON value, as in `data.get("args", {}) or {}`.
Falsy(x) ==
    \/ x.t \in {"null", "none"}
    \/ x.t = "bool" /\ x.v = FALSE
    \/ x.t = "num" /\ x.v = 0
    \/ x.t = "str" /\ x.v = ""
    \/ x.t \in {"list", "dict"} /\ x.v = << >>

\* Whether a value can be a dict key (TOOL_MAP.get raises TypeError otherwise).
Hashable(x) == x.t \notin {"list", "dict"}

\* TOOL_MAP's keys.
ToolNames == {"read_file", "append_log", "run_command", "system_info",
              "ping_host", "scan_port", "ssh_command"}

\* TOOL_MAP.get(tool_name) is not None
InToolMap(name) == name.t = "str" /\ name.v \in ToolNames

\* Argument values that are texts the code strips: sequences of characters.
Cmd == <<"l", "s">>
Blank == <<" ">>
ExampleHost == <<"e", "x", "a", "m", "p", "l", "e", ".", "c", "o", "m">>

ToolCall(name, a) == JDict([tool |-> name, args |-> a])

GoodArgs ==
    [read_file |-> JDict([path |-> "notes.txt"]),
     append_log |-> JDict([path |-> "notes.txt", text |-> "note"]),
     run_command |-> JDict([command |-> Cmd, timeout |-> 5]),
     system_info |-> EmptyDict,
     ping_host |-> JDict([host |-> ExampleHost, count |-> 4, timeout |-> 2]),
     scan_port |-> JDict([host |-> ExampleHost, port |-> 80, timeout |-> 2]),
     ssh_command |-> JDict([host |-> ExampleHost, command |-> Cmd])]

\* The replies the chat service gives.
Replies ==
    \* a tool call as the whole text, one per capability
    {[whole |-> TRUE, data |-> ToolCall(JStr(n), GoodArgs[n])] : n \in ToolNames}
    \cup
    {\* a tool call inside prose
     [whole |-> FALSE, data |-> ToolCall(JStr("read_file"), GoodArgs["read_file"])],
     \* no "args" key
     [whole |-> TRUE, data |-> JDict([tool |-> JStr("system_info")])],
     [whole |-> TRUE, data |-> JDict([tool |-> JStr("read_file")])],
     \* args of the wrong shape
     [whole |-> TRUE, data |-> ToolCall(JStr("read_file"), JDict([file |-> "notes.txt"]))],
     [whole |-> TRUE, data |-> ToolCall(JStr("read_file"), JList(<<"notes.txt">>))],
     [whole |-> TRUE, data |-> ToolCall(JStr("read_file"), JList(<< >>))],
     [whole |-> TRUE, data |-> ToolCall(JStr("run_command"), JList(<<"ls">>))],
     [whole |-> TRUE, data |-> ToolCall(JStr("run_command"), JDict([command |-> Cmd, timeout |-> 0]))],
     [whole |-> TRUE, data |-> ToolCall(JStr("run_command"), JDict([command |-> Cmd, timeout |-> -1]))],
     [whole |-> TRUE, data |-> ToolCall(JStr("run_command"), JDict([command |-> Blank, timeout |-> 5]))],
     [whole |-> TRUE, data |-> ToolCall(JStr("scan_port"), JDict([host |-> ExampleHost, port |-> 0, timeout |-> 2]))],
     \* ping_host with its defaults, and with values the worker clamps
     [whole |-> TRUE, data |-> ToolCall(JStr("ping_host"), JDict([host |-> ExampleHost]))],
     [whole |-> TRUE, data |-> ToolCall(JStr("ping_host"), JDict([host |-> ExampleHost, count |-> 20, timeout |-> 2]))],
     [whole |-> TRUE, data |-> ToolCall(JStr("ping_host"), JDict([host |-> ExampleHost, count |-> 0, timeout |-> 0]))],
     \* names that are not keys of TOOL_MAP
     [whole |-> TRUE, data |-> ToolCall(JStr("bogus"), EmptyDict)],
     [whole |-> FALSE, data |-> ToolCall(JStr("bogus"), EmptyDict)],
     [whole |-> TRUE, data |-> ToolCall(JNull, EmptyDict)],
     [whole |-> TRUE, data |-> ToolCall(JList(<<"read_file">>), EmptyDict)],
     [whole |-> FALSE, data |-> ToolCall(JList(<<"read_file">>), EmptyDict)],
     \* final answers
     [whole |-> TRUE, data |-> JDict([final |-> JStr("Port 80 is open.")])],
     [whole |-> FALSE, data |-> JDict([final |-> JStr("Port 80 is open.")])],
     \* a tool call wins over a final answer in the same object
     [whole |-> TRUE, data |-> JDict([tool |-> JStr("system_info"), final |-> JStr("done")])],
     \* neither key, not an object, no object at all
     [whole |-> TRUE, data |-> JDict([note |-> JStr("hm")])],
     [whole |-> FALSE, data |-> JDict([note |-> JStr("hm")])],
     [whole |-> TRUE, data |-> JNum(5)],
     [whole |-> TRUE, data |-> JList(<<"tool">>)],
     [whole |-> FALSE, data |-> NoneVal]}

IsToolCall(r) == r.data.t = "dict" /\ "tool" \in DOMAIN r.data.v
IsFinal(r) == r.data.t = "dict" /\ "tool" \notin DOMAIN r.data.v /\ "final" \in DOMAIN r.data.v

\* The replies of the sessions that run for several rounds: three of the
\* capabilities, and every shape of reply.
CoreTools == {"read_file", "run_command", "scan_port"}

CoreReplies ==
    {r \in Replies :
        (IsToolCall(r) /\ InToolMap(r.data.v.tool)) => r.data.v.tool.v \in CoreTools}

\* args = data.get("args", {}) or {}
ArgsOf(r) ==
    IF "args" \in DOMAIN r.data.v /\ ~Falsy(r.data.v.args) THEN r.data.v.args ELSE EmptyDict

(***************************************************************************)
(* The transcript.  A message is [kind, role, val]: role and content as in *)
(* the code, kind naming which f-string or value the content is.           *)
(***************************************************************************)
Msg(kind, role, a, b) == [kind |-> kind, role |-> role, val |-> [a |-> a, b |-> b]]

\* {"role": "system", "content": SYSTEM_PROMPT.strip()}
SystemMsg == Msg("system", "system", NoneVal, NoneVal)
\* {"role": "user", "content": user_input}
UserMsg(line) == Msg("user_input", "user", [t |-> "text", v |-> line], NoneVal)
\* {"role": "assistant", "content": reply}
AssistantMsg(r) == Msg("reply", "assistant", r, NoneVal)
\* FinalMsg with the summary recorded as a user message.
FinalMsgAsUser(v) == Msg("final", "user", v, NoneVal)

\* {"role": "assistant", "content": final_message}
FinalMsg(v) == Msg("final", "assistant", v, NoneVal)
\* {"role": "user", "content": f"Unknown tool '{tool_name}'."}
UnknownToolMsg(name) == Msg("unknown_tool", "user", name, NoneVal)
\* {"role": "user", "content": f"User declined to run tool {tool_name}."}
DeclinedMsg(name) == Msg("declined", "user", name, NoneVal)
\* _pretty(obj): a string as it is, anything else as indented JSON
Pretty(obj) == IF obj.t = "str" THEN [form |-> "text", v |-> obj.v]
               ELSE [form |-> "pretty", v |-> obj]

\* The display of a tool result: its stdout, the stdout of the dict under its
\* "result" key, or the whole result pretty-printed.
Display(res) ==
    IF res.t = "dict" /\ "stdout" \in DOMAIN res.v
    THEN [form |-> "stdout", v |-> res.v.stdout]
    ELSE IF /\ res.t = "dict"
            /\ "result" \in DOMAIN res.v
            /\ res.v.result.t = "dict"
            /\ "stdout" \in DOMAIN res.v.result.v
         THEN [form |-> "inner stdout", v |-> res.v.result.v.stdout]
         ELSE Pretty(res)

\* Dumps that serialises the part of the result that was displayed.
DumpsOfDisplay(res) ==
    [t |-> "json",
     v |-> IF Display(res).form = "stdout" THEN JDict([stdout |-> res.v.stdout])
           ELSE IF Display(res).form = "inner stdout" THEN res.v.result
           ELSE res]

\* json.dumps(result, ensure_ascii=False)
Dumps(res) == [t |-> "json", v |-> res]
\* {"role": "user", "content": f"Tool {tool_name} result: {json.dumps(result)}"}
ToolResultMsg(name, res) == Msg("tool_result", "user", name, Dumps(res))

(***************************************************************************)
(* The capability functions of mcp_client.py, up to the bridge.            *)
(***************************************************************************)
\* The parameters of each function: required, and those with a default.
Required ==
    [read_file |-> {"path"}, append_log |-> {"path", "text"}, run_command |-> {"command"},
     system_info |-> {}, ping_host |-> {"host"}, scan_port |-> {"host", "port"},
     ssh_command |-> {"host", "command"}]

Optional ==
    [read_file |-> {}, append_log |-> {}, run_command |-> {"timeout"},
     system_info |-> {}, ping_host |-> {"count", "timeout"}, scan_port |-> {"timeout"},
     ssh_command |-> {"user", "port", "key_path", "timeout"}]

\* ClientCheck without run_command's test of its timeout.
ClientCheckNoTimeout(tool, a) ==
    IF a.t # "dict"
    THEN Raised("TypeError", "argument must be a mapping")
    ELSE IF ~(Required[tool] \subseteq Keys(a))
         THEN Raised("TypeError", "missing required positional argument")
         ELSE IF ~(Keys(a) \subseteq Required[tool] \cup Optional[tool])
              THEN Raised("TypeError", "got an unexpected keyword argument")
              ELSE NoOutcome

\* the call func(args) up to the call of _call_tool: what it raises, or NoOutcome when
\* the call goes on to the bridge.
ClientCheck(tool, a) ==
    IF a.t # "dict"
    THEN Raised("TypeError", "argument must be a mapping")
    ELSE IF ~(Required[tool] \subseteq Keys(a))
         THEN Raised("TypeError", "missing required positional argument")
         ELSE IF ~(Keys(a) \subseteq Required[tool] \cup Optional[tool])
              THEN Raised("TypeError", "got an unexpected keyword argument")
              ELSE IF tool = "run_command" /\ "timeout" \in Keys(a) /\ a.v.timeout <= 0
                   THEN Raised("ValueError", "timeout must be positive")
                   ELSE NoOutcome

(***************************************************************************)
(* The worker's tools (mcp_server.py), by the dict each returns.  env is   *)
(* what the host does: "ok", "nonzero" (exit status not 0), "not_found",   *)
(* "timeout", "refused", "no_binary", "raised" (any other exception).      *)
(***************************************************************************)
\* _proc_result(result), with the command the callers add
ProcResult(rc, command) ==
    [status |-> IF rc = 0 THEN "ok" ELSE "error", returncode |-> rc,
     stdout |-> "out", stderr |-> "", command |-> command]

ErrorDict(msg) == [status |-> "error", error |-> msg]

Srv_read_file(a, env) ==
    IF env = "ok" THEN [content |-> "data"]
    ELSE IF env = "not_found" THEN [error |-> "file not found", content |-> ""]
    ELSE [error |-> "permission denied", content |-> ""]

Srv_append_log(a, env) ==
    IF env = "ok" THEN [status |-> "ok"] ELSE ErrorDict("permission denied")

Srv_run_command(a, env) ==
    IF Strip(a.command) = << >>
    THEN ErrorDict("command cannot be empty")
    ELSE IF env = "ok" THEN ProcResult(0, a.command)
    ELSE IF env = "nonzero" THEN ProcResult(1, a.command)
    ELSE IF env = "timeout" THEN ErrorDict("command timed out after Ns")
    ELSE ErrorDict("os error")

Srv_system_info(a, env) ==
    [platform |-> "Linux", system |-> "Linux", release |-> "6", python |-> "3",
     architecture |-> "x86_64", cpu_count |-> 2,
     load_avg |-> IF env = "ok" THEN "0.1" ELSE "null",
     uptime_seconds |-> IF env = "ok" THEN "12.5" ELSE "null"]

\* max and min of two integers
Max(a, b) == IF a >= b THEN a ELSE b
Min(a, b) == IF a <= b THEN a ELSE b

\* count = max(1, min(count, 10)); timeout = max(1, timeout);
\* command = [ping_bin, "-c", str(count), "-W", str(timeout), host]
PingCommand(a) ==
    [bin |-> "ping", c |-> Max(1, Min(a.count, 10)), W |-> Max(1, a.timeout),
     host |-> a.host]

Srv_ping_host(a, env) ==
    IF Strip(a.host) = << >> THEN ErrorDict("host is required")
    ELSE IF env = "no_binary" THEN ErrorDict("ping binary not available")
    ELSE IF env = "ok" THEN ProcResult(0, PingCommand(a))
    ELSE IF env = "nonzero" THEN ProcResult(1, PingCommand(a))
    ELSE IF env = "timeout" THEN ErrorDict("ping operation timed out")
    ELSE ErrorDict("os error")

Srv_scan_port(a, env) ==
    IF Strip(a.host) = << >> THEN ErrorDict("host is required")
    ELSE IF ~(0 < a.port /\ a.port < 65536) THEN ErrorDict("port must be between 1 and 65535")
    ELSE IF env = "ok"
         THEN [status |-> "ok", host |-> a.host, port |-> a.port, open |-> TRUE,
               latency |-> "0.1234"]
    ELSE IF env \in {"timeout", "refused"}
         THEN [status |-> "ok", host |-> a.host, port |-> a.port, open |-> FALSE]
    ELSE ErrorDict("os error")

Srv_ssh_command(a, env) ==
    IF Strip(a.host) = << >> THEN ErrorDict("host is required")
    ELSE IF Strip(a.command) = << >> THEN ErrorDict("command is required")
    ELSE IF env = "no_binary" THEN ErrorDict("ssh binary not available")
    ELSE IF env = "ok" THEN ProcResult(0, "ssh")
    ELSE IF env = "nonzero" THEN ProcResult(1, "ssh")
    ELSE IF env = "timeout" THEN ErrorDict("ssh command timed out after Ns")
    ELSE ErrorDict("os error")

\* What the host can do under each tool.
Envs ==
    [read_file |-> {"ok", "not_found", "raised"},
     append_log |-> {"ok", "raised"},
     run_command |-> {"ok", "nonzero", "timeout", "raised"},
     system_info |-> {"ok", "raised"},
     ping_host |-> {"ok", "nonzero", "timeout", "no_binary", "raised"},
     scan_port |-> {"ok", "timeout", "refused", "raised"},
     ssh_command |-> {"ok", "nonzero", "timeout", "no_binary", "raised"}]

\* The dict the tool returns for the arguments a (a record) under env.
ServerTool(tool, a, env) ==
    CASE tool = "read_file" -> Srv_read_file(a, env)
      [] tool = "append_log" -> Srv_append_log(a, env)
      [] tool = "run_command" -> Srv_run_command(a, env)
      [] tool = "system_info" -> Srv_system_info(a, env)
      [] tool = "ping_host" -> Srv_ping_host(a, env)
      [] tool = "scan_port" -> Srv_scan_port(a, env)
      [] tool = "ssh_command" -> Srv_ssh_command(a, env)

Reply(isError, payload, content) ==
    [isError |-> isError, structuredContent |-> payload, content |-> content]

\* The argument mapping a capability function passes to _call_tool; the
\* defaults are filled in for ping_host, whose worker reads them.
CallArguments(tool, a) ==
    IF tool = "ping_host"
    THEN [host |-> a.v.host,
          count |-> IF "count" \in DOMAIN a.v THEN a.v.count ELSE 4,
          timeout |-> IF "timeout" \in DOMAIN a.v THEN a.v.timeout ELSE 2]
    ELSE a.v

\* Whether the worker's tool gets as far as its operation: the arguments pass
\* the checks at the top of the tool.
Operates(tool, a) ==
    CASE tool = "run_command" -> Strip(a.command) # << >>
      [] tool = "ping_host" -> Strip(a.host) # << >>
      [] tool = "scan_port" -> Strip(a.host) # << >> /\ 0 < a.port /\ a.port < 65536
      [] tool = "ssh_command" -> Strip(a.host) # << >> /\ Strip(a.command) # << >>
      [] OTHER -> TRUE

\* What session.call_tool can return for a call, with what the host did: the
\* tool's dict as the structured payload, that dict under the key "result"
\* (the server library's wrapping of a return type it has no schema for), the
\* dict as one text block, an error-flagged reply (the tool raised, or the
\* arguments failed validation), or no content.
WorkerOutcomes(tool, a) ==
    {[env |-> IF Operates(tool, CallArguments(tool, a)) THEN e ELSE NoEnv,
      reply |-> Reply(FALSE,
                      [has |-> TRUE,
                       v |-> JDict(ServerTool(tool, CallArguments(tool, a), e))],
                      << >>)] :
        e \in Envs[tool]}
    \cup {[env |-> IF Operates(tool, CallArguments(tool, a)) THEN "ok" ELSE NoEnv,
           reply |-> Reply(FALSE,
                          [has |-> TRUE,
                           v |-> JDict([result |->
                                           JDict(ServerTool(tool, CallArguments(tool, a),
                                                            "ok"))])],
                          << >>)]}
    \cup {[env |-> NoEnv, reply |-> r] :
             r \in {Reply(FALSE, NoPayload, <<TextBlock("json text of the dict")>>),
                    Reply(TRUE, NoPayload, <<TextBlock("error text")>>),
                    Reply(FALSE, NoPayload, << >>)}}

RepliesFor(tool, a) == {o.reply : o \in WorkerOutcomes(tool, a)}

(***************************************************************************)
(* The interactive session: main, process_assistant, _confirm_tool and, for*)
(* a confirmed call, the capability function and _call_tool_async.         *)
(*   pc: "input" (main waits at "you> "), "request" (the loop's head),     *)
(*   "chat" (ask_ollama outstanding), "confirm" (the [y/N] prompt),        *)
(*   "invoke" (the call func(args) is about to be called), "spawn", "handshake",  *)
(*   "call", "teardown" (inside _call_tool_async), "record" (back in       *)
(*   process_assistant with the outcome), "exited" (main returned),        *)
(*   "crashed" (an exception left main).                                   *)
(***************************************************************************)
\* Model requests of one session: of the sessions over CoreReplies, and of
\* those over every reply of Replies.
MaxRequests == 2
MaxWideRequests == 1

\* main(), up to the first prompt
Init ==
    /\ messages = <<SystemMsg>>
    /\ pc = "input"
    /\ reply = NoReply
    /\ tool_name = JNull
    /\ args = EmptyDict
    /\ choice = NoChoice
    /\ pending = NoOutcome
    /\ openSessions = 0
    /\ opened = 0
    /\ sent = 0
    /\ invoked = 0
    /\ requests = 0
    /\ snapshot = << >>
    /\ results = << >>
    /\ crash = NoCrash
    /\ shown = NoLine
    /\ host_did = NoEnv
    /\ ScanIdle
    /\ NormIdle
    /\ AgentIdle

IsExit(line) == Lower(line) \in {<<"e", "x", "i", "t">>, <<"q", "u", "i", "t">>}

\* main: one line read at "you> "
UserInput(cap) ==
    /\ pc = "input"
    /\ \E typed \in UserLines :
          LET user_input == Strip(typed) IN
          IF user_input = << >>
          THEN UNCHANGED <<messages, pc, shown>>
          ELSE IF IsExit(user_input)
               THEN /\ pc' = "exited"
                    /\ shown' = Line("goodbye", NoneVal)
                    /\ UNCHANGED messages
               ELSE /\ requests < cap
                    /\ messages' = Append(messages, UserMsg(user_input))
                    /\ pc' = "request"
                    /\ UNCHANGED shown
    /\ UNCHANGED <<reply, tool_name, args, choice, pending, openSessions, opened, sent,
                   invoked, requests, snapshot, results, crash>>
    /\ UNCHANGED <<agentVars, scanVars, normVars, host_did>>

\* main: EOFError or KeyboardInterrupt at "you> "
UserInterrupt ==
    /\ pc = "input"
    /\ pc' = "exited"
    /\ shown' = Line("exiting", NoneVal)
    /\ UNCHANGED <<messages, reply, tool_name, args, choice, pending, openSessions, opened,
                   sent, invoked, requests, snapshot, results, crash>>
    /\ UNCHANGED <<agentVars, scanVars, normVars, host_did>>

\* process_assistant: ask_ollama(messages) is called
SendRequest(cap) ==
    /\ pc = "request"
    /\ requests < cap
    /\ requests' = requests + 1
    /\ snapshot' = messages
    /\ pc' = "chat"
    /\ UNCHANGED <<messages, reply, tool_name, args, choice, pending, openSessions, opened,
                   sent, invoked, results, crash>>
    /\ UNCHANGED <<agentVars, scanVars, normVars, shown, host_did>>

\* ask_ollama raises (the chat service is unreachable): nothing catches it
ChatFails ==
    /\ pc = "chat"
    /\ pc' = "crashed"
    /\ crash' = [exc |-> "ConnectionError", at |-> "chat"]
    /\ UNCHANGED <<messages, reply, tool_name, args, choice, pending, openSessions, opened,
                   sent, invoked, requests, snapshot, results>>
    /\ UNCHANGED <<agentVars, scanVars, normVars, shown, host_did>>

\* _confirm_tool, before its prompt: building the preview calls args.get for
\* these three tools, which a list, a string or a number does not have.
PreviewRaises(name, a) ==
    name.v \in {"run_command", "ping_host", "ssh_command"} /\ a.t # "dict"

\* args.get(key, default) or default, for an integer argument
IntOr(a, key, default) ==
    IF key \in DOMAIN a.v /\ a.v[key] # 0 THEN a.v[key] ELSE default

\* _confirm_tool's preview of a ping_host call: "ping -c {count} -W {timeout}
\* {host}", or none when the host is blank
PingPreview(a) ==
    LET host == IF "host" \in DOMAIN a.v THEN Strip(a.v.host) ELSE << >> IN
    IF host = << >>
    THEN [has |-> FALSE, c |-> 0, W |-> 0, host |-> host]
    ELSE [has |-> TRUE, c |-> IntOr(a, "count", 4), W |-> IntOr(a, "timeout", 2),
          host |-> host]

\* The messages appended before the routing on data: the except branch.
Logged(r) == IF r.whole THEN << >> ELSE <<AssistantMsg(r)>>

\* process_assistant from the reply to its next suspension point: what is
\* appended, where control goes, and the exception that escapes, if any.
Interpret(r) ==
    LET echo == IF r.whole THEN NoLine ELSE Line("reply", r) IN
    IF ~r.whole /\ r.data.t = "none"
    THEN [append |-> <<AssistantMsg(r)>>, pc |-> "input", crash |-> NoCrash,
          shown |-> Line("reply", r)]
    ELSE IF IsToolCall(r)
         THEN IF ~Hashable(r.data.v.tool)
              THEN [append |-> Logged(r), pc |-> "crashed",
                    crash |-> [exc |-> "TypeError", at |-> "lookup"], shown |-> echo]
              ELSE LET first == IF r.whole THEN <<AssistantMsg(r)>> ELSE Logged(r) IN
                   IF ~InToolMap(r.data.v.tool)
                   THEN [append |-> first \o <<UnknownToolMsg(r.data.v.tool)>>,
                         pc |-> "input", crash |-> NoCrash,
                         shown |-> Line("unknown_tool", r.data.v.tool)]
                   ELSE IF PreviewRaises(r.data.v.tool, ArgsOf(r))
                        THEN [append |-> first, pc |-> "crashed",
                              crash |-> [exc |-> "AttributeError", at |-> "confirm"],
                              shown |-> echo]
                        ELSE [append |-> first, pc |-> "confirm", crash |-> NoCrash,
                              shown |-> echo]
         ELSE IF IsFinal(r)
              THEN [append |-> Logged(r) \o <<FinalMsg(r.data.v.final)>>,
                    pc |-> "input", crash |-> NoCrash,
                    shown |-> IF r.whole THEN Line("final", r.data.v.final) ELSE echo]
              ELSE [append |-> Logged(r) \o <<AssistantMsg(r)>>,
                    pc |-> "input", crash |-> NoCrash, shown |-> Line("reply", r)]

\* process_assistant: the reply arrives and is interpreted
ReceiveReply(pool) ==
    /\ pc = "chat"
    /\ \E r \in pool :
          LET act == Interpret(r) IN
          /\ reply' = r
          /\ messages' = messages \o act.append
          /\ pc' = act.pc
          /\ crash' = act.crash
          /\ shown' = IF act.shown = NoLine THEN shown ELSE act.shown
          /\ IF IsToolCall(r) /\ Hashable(r.data.v.tool)
             THEN /\ tool_name' = r.data.v.tool
                  /\ args' = ArgsOf(r)
             ELSE UNCHANGED <<tool_name, args>>
    /\ choice' = NoChoice
    /\ invoked' = 0
    /\ UNCHANGED <<pending, openSessions, opened, sent, requests, snapshot, results>>
    /\ UNCHANGED <<agentVars, scanVars, normVars, host_did>>

\* IsAffirmative with the empty line taken as the default "yes".
IsAffirmativeOrEmpty(c) == c \in {<<"y">>, <<"y", "e", "s">>, << >>}

\* choice in {"y", "yes"}
IsAffirmative(c) == c \in {<<"y">>, <<"y", "e", "s">>}

\* IsNegative without the empty line: an empty answer asks again.
IsNegativeWords(c) == c \in {<<"n">>, <<"n", "o">>}

\* choice in {"n", "no", ""}
IsNegative(c) == c \in {<<"n">>, <<"n", "o">>, << >>}

\* input(prompt).strip().lower()
Normalized(line) == Lower(Strip(line))

\* _confirm_tool: one line read at the prompt, and what the caller does with
\* the answer
ConfirmAnswer ==
    /\ pc = "confirm"
    /\ \E typed \in Answers :
          /\ choice' = typed
          /\ IF IsAffirmative(Normalized(typed))
             THEN /\ pc' = "invoke"
                  /\ UNCHANGED <<messages, shown>>
             ELSE IF IsNegative(Normalized(typed))
                  THEN /\ pc' = "input"
                       /\ messages' = Append(messages, DeclinedMsg(tool_name))
                       /\ shown' = Line("declined", tool_name)
                  ELSE UNCHANGED <<messages, pc, shown>>
    /\ UNCHANGED <<reply, tool_name, args, pending, openSessions, opened, sent, invoked,
                   requests, snapshot, results, crash>>
    /\ UNCHANGED <<agentVars, scanVars, normVars, host_did>>

\* _confirm_tool: EOFError or KeyboardInterrupt at the prompt; no handler
\* between input() and the interpreter's top level
ConfirmInterrupt ==
    /\ pc = "confirm"
    /\ pc' = "crashed"
    /\ crash' = [exc |-> "KeyboardInterrupt", at |-> "confirm"]
    /\ UNCHANGED <<messages, reply, tool_name, args, choice, pending, openSessions, opened,
                   sent, invoked, requests, snapshot, results>>
    /\ UNCHANGED <<agentVars, scanVars, normVars, shown, host_did>>

\* result = the call func(args): the capability function runs up to _call_tool
Invoke ==
    /\ pc = "invoke"
    /\ invoked' = invoked + 1
    /\ opened' = 0
    /\ sent' = 0
    /\ choice' = NoChoice
    /\ host_did' = NoEnv
    /\ LET early == ClientCheck(tool_name.v, args) IN
       IF early.kind = "raise"
       THEN /\ pending' = early
            /\ pc' = "record"
       ELSE /\ pending' = NoOutcome
            /\ pc' = "spawn"
    /\ UNCHANGED <<messages, reply, tool_name, args, openSessions, requests, snapshot,
                   results, crash>>
    /\ UNCHANGED <<agentVars, scanVars, normVars, shown>>

\* async with stdio_client(...), async with ClientSession(...): the worker is
\* started and the session entered, or starting it fails
OpenSession ==
    /\ pc = "spawn"
    /\ \E ok \in BOOLEAN :
          IF ok
          THEN /\ openSessions' = openSessions + 1
               /\ opened' = opened + 1
               /\ pc' = "handshake"
               /\ UNCHANGED pending
          ELSE /\ pending' = Raised("OSError", "worker could not be started")
               /\ pc' = "record"
               /\ UNCHANGED <<openSessions, opened>>
    /\ UNCHANGED <<messages, reply, tool_name, args, choice, sent, invoked, requests,
                   snapshot, results, crash>>
    /\ UNCHANGED <<agentVars, scanVars, normVars, shown, host_did>>

\* await session.initialize()
Handshake ==
    /\ pc = "handshake"
    /\ \E ok \in BOOLEAN :
          IF ok
          THEN /\ pc' = "call"
               /\ UNCHANGED pending
          ELSE /\ pending' = Raised("McpError", "Connection closed")
               /\ pc' = "teardown"
    /\ UNCHANGED <<messages, reply, tool_name, args, choice, openSessions, opened, sent,
                   invoked, requests, snapshot, results, crash>>
    /\ UNCHANGED <<agentVars, scanVars, normVars, shown, host_did>>

\* result = await session.call_tool(name, arguments); return _normalize_result(result)
CallTool ==
    /\ pc = "call"
    /\ sent' = sent + 1
    /\ \/ \E o \in WorkerOutcomes(tool_name.v, args) :
              /\ pending' = NormalizeResult(o.reply)
              /\ host_did' = o.env
       \/ /\ pending' = Raised("McpError", "Connection closed")
          /\ host_did' = NoEnv
    /\ pc' = "teardown"
    /\ UNCHANGED <<messages, reply, tool_name, args, choice, openSessions, opened, invoked,
                   requests, snapshot, results, crash>>
    /\ UNCHANGED <<agentVars, scanVars, normVars, shown>>

\* KeyboardInterrupt while anyio.run waits on the worker: the task is cancelled
Cancel ==
    /\ pc \in {"handshake", "call"}
    /\ pending' = Raised("KeyboardInterrupt", "")
    /\ pc' = "teardown"
    /\ UNCHANGED <<messages, reply, tool_name, args, choice, openSessions, opened, sent,
                   invoked, requests, snapshot, results, crash>>
    /\ UNCHANGED <<agentVars, scanVars, normVars, shown, host_did>>

\* CloseSession that returns without closing the session.
CloseSessionLeak ==
    /\ pc = "teardown"
    /\ pc' = "record"
    /\ UNCHANGED <<messages, reply, tool_name, args, choice, pending, openSessions, opened,
                   sent, invoked, requests, snapshot, results, crash>>
    /\ UNCHANGED <<agentVars, scanVars, normVars, shown, host_did>>

\* the two async with blocks exit: the session is closed, the worker reaped
CloseSession ==
    /\ pc = "teardown"
    /\ openSessions' = openSessions - 1
    /\ pc' = "record"
    /\ UNCHANGED <<messages, reply, tool_name, args, choice, pending, opened, sent, invoked,
                   requests, snapshot, results, crash>>
    /\ UNCHANGED <<agentVars, scanVars, normVars, shown, host_did>>

\* except Exception as exc: result = {"status": "error", "error": str(exc)}
ErrorResult(exc) == JDict([status |-> "error", error |-> exc.msg])

\* NotCaught for a handler that names the transport's errors only.
NotCaughtNarrow(exc) == exc.type \notin {"McpError", "OSError"}

\* NotCaught when the call has no handler around it.
NotCaughtAny(exc) == TRUE

\* Exceptions that `except Exception` does not catch.
NotCaught(exc) == exc.type \in {"KeyboardInterrupt"}

\* AppendResult that puts the result right after the system prompt.
AppendResultAtFront(msgs, m) == <<Head(msgs), m>> \o Tail(msgs)

\* AppendResult that overwrites the last message with the result.
AppendResultOverLast(msgs, m) == SubSeq(msgs, 1, Len(msgs) - 1) \o <<m>>

\* messages.append({"role": "user", "content": f"Tool ... result: ..."})
AppendResult(msgs, m) == Append(msgs, m)

\* process_assistant: the call returned or raised; the result is recorded and
\* the loop continues
RecordResult ==
    /\ pc = "record"
    /\ IF pending.kind = "raise" /\ NotCaught(pending.exc)
       THEN /\ pc' = "crashed"
            /\ crash' = [exc |-> pending.exc.type, at |-> "invoke"]
            /\ UNCHANGED <<messages, results, shown>>
       ELSE LET res == IF pending.kind = "raise" THEN ErrorResult(pending.exc)
                       ELSE pending.val
            IN /\ messages' = AppendResult(messages, ToolResultMsg(tool_name, res))
               /\ results' = Append(results, ToolResultMsg(tool_name, res))
               /\ shown' = Line("tool", [name |-> tool_name, display |-> Display(res)])
               /\ pc' = "request"
               /\ UNCHANGED crash
    /\ pending' = NoOutcome
    /\ host_did' = NoEnv
    /\ UNCHANGED <<reply, tool_name, args, choice, openSessions, opened, sent, invoked,
                   requests, snapshot>>
    /\ UNCHANGED <<agentVars, scanVars, normVars>>

Next ==
    \/ UserInput(MaxRequests)
    \/ UserInterrupt
    \/ SendRequest(MaxRequests)
    \/ ChatFails
    \/ ReceiveReply(CoreReplies)
    \/ ConfirmAnswer
    \/ ConfirmInterrupt
    \/ Invoke
    \/ OpenSession
    \/ Handshake
    \/ CallTool
    \/ Cancel
    \/ CloseSession
    \/ RecordResult

Spec == Init /\ [][Next]_vars

\* The same session over every reply of Replies, so over every capability.
NextWide ==
    \/ UserInput(MaxWideRequests)
    \/ UserInterrupt
    \/ SendRequest(MaxWideRequests)
    \/ ChatFails
    \/ ReceiveReply(Replies)
    \/ ConfirmAnswer
    \/ ConfirmInterrupt
    \/ Invoke
    \/ OpenSession
    \/ Handshake
    \/ CallTool
    \/ Cancel
    \/ CloseSession
    \/ RecordResult

SpecWide == Init /\ [][NextWide]_vars

(***************************************************************************)
(* The standalone loop: run_agent (src/agent.py).  It keeps no transcript: *)
(* each model request carries the system prompt and task only.             *)
(*   apc: "ask" (the loop's head), "chat" (ask_ollama outstanding), "call" *)
(*   (read_file or append_log is about to be called), "sleep"              *)
(*   (time.sleep(2) at the foot of the loop), "done" (the loop was left by *)
(*   break), "crashed" (an exception left run_agent).                      *)
(***************************************************************************)
\* Model requests of one run of run_agent.
MaxAgentRequests == 2

\* task = f"Analyze {AUTH_LOG} for suspicious activity and write notes to ..."
InitialTask == [kind |-> "analyze", v |-> NoneVal]
\* task = f"Tool result: {result}. Continue."
ToolResultTask(res) == [kind |-> "tool_result", v |-> res]
\* task = f"Logged: {result}. Continue."
LoggedTask(res) == [kind |-> "logged", v |-> res]

\* The tool names run_agent compares tool_name with.
AgentTools == {"read_file", "append_log"}

\* The replies run_agent is given: those of Replies (none of which is a JSON
\* string as a whole).
AgentReplies == {r \in Replies : r.data.t # "str"}

\* `key in data` for a parsed JSON value: a key of a dict, an element of a
\* list; TypeError for a number, a boolean or null.
InRaises(d) == d.t \notin {"dict", "list"}
In(key, d) ==
    IF d.t = "dict" THEN key \in DOMAIN d.v
    ELSE \E i \in 1 .. Len(d.v) : d.v[i] = key

\* args = data.get("args", {})
AgentArgsOf(d) == IF "args" \in DOMAIN d.v THEN d.v.args ELSE EmptyDict

\* The keys run_agent subscripts args with, per tool.
AgentKeys == [read_file |-> {"path"}, append_log |-> {"path", "text"}]

\* args[key] raises KeyError (a dict without the key) or TypeError (not a dict)
SubscriptRaises(a, keys) == a.t # "dict" \/ ~(keys \subseteq DOMAIN a.v)

\* The argument mapping read_file(args["path"]) and append_log(args["path"],
\* args["text"]) pass to _call_tool.
AgentArguments(tool, a) ==
    IF tool = "read_file" THEN JDict([path |-> a.v.path])
    ELSE JDict([path |-> a.v.path, text |-> a.v.text])

\* One pass of the loop's body from the reply to its next suspension point:
\* "raw" (the except branch: raw output, break), "final" (summary, break),
\* "call" (a tool is called), "sleep" (the body falls through to time.sleep).
AgentInterpret(r) ==
    IF ~r.whole THEN "raw"
    ELSE IF InRaises(r.data) THEN "raw"
    ELSE IF In("tool", r.data)
         THEN IF r.data.t # "dict" THEN "raw"
              ELSE IF r.data.v.tool.t = "str" /\ r.data.v.tool.v \in AgentTools
                   THEN IF SubscriptRaises(AgentArgsOf(r.data),
                                           AgentKeys[r.data.v.tool.v])
                        THEN "raw"
                        ELSE "call"
                   ELSE "sleep"
         ELSE IF In("final", r.data)
              THEN IF r.data.t # "dict" THEN "raw" ELSE "final"
              ELSE "sleep"

InitAgent ==
    /\ ScanIdle
    /\ NormIdle
    /\ OrchIdle
    /\ task = InitialTask
    /\ apc = "ask"

\* reply = ask_ollama(task) is called
AgentAsk ==
    /\ apc = "ask"
    /\ requests < MaxAgentRequests
    /\ requests' = requests + 1
    /\ apc' = "chat"
    /\ UNCHANGED <<messages, pc, reply, tool_name, args, choice, crash, pending,
                   openSessions, opened, sent, invoked, snapshot, results, shown,
                   host_did, task>>
    /\ UNCHANGED <<scanVars, normVars>>

\* ask_ollama raises: the call is outside the try statement
AgentChatFails ==
    /\ apc = "chat"
    /\ apc' = "crashed"
    /\ crash' = [exc |-> "ConnectionError", at |-> "chat"]
    /\ UNCHANGED <<messages, pc, reply, tool_name, args, choice, pending, openSessions,
                   opened, sent, invoked, requests, snapshot, results, shown, host_did,
                   task>>
    /\ UNCHANGED <<scanVars, normVars>>

\* the reply arrives: json.loads and the routing on data
AgentReceive ==
    /\ apc = "chat"
    /\ \E r \in AgentReplies :
          LET how == AgentInterpret(r) IN
          /\ reply' = r
          /\ apc' = IF how \in {"raw", "final"} THEN "done" ELSE how
          /\ shown' = IF how = "raw" THEN Line("raw_output", r)
                      ELSE IF how = "final" THEN Line("final_summary", r.data.v.final)
                      ELSE Line("llm_reply", r)
          /\ IF how = "call"
             THEN /\ tool_name' = r.data.v.tool
                  /\ args' = AgentArgsOf(r.data)
             ELSE UNCHANGED <<tool_name, args>>
    /\ UNCHANGED <<messages, pc, choice, crash, pending, openSessions, opened, sent,
                   invoked, requests, snapshot, results, host_did, task>>
    /\ UNCHANGED <<scanVars, normVars>>

\* What read_file or append_log returns or raises: the bridge's outcome for a
\* worker reply, a failure of the session, or the user's Ctrl-C.
AgentOutcomes(tool, a) ==
    {NormalizeResult(w) : w \in RepliesFor(tool, AgentArguments(tool, a))}
    \cup {Raised("McpError", "Connection closed"), Raised("OSError", "spawn failed"),
          Raised("KeyboardInterrupt", "")}

\* result = read_file(...) or append_log(...); task = ...; continue -- or the
\* except branch, or an exception that `except Exception` does not catch
AgentCall ==
    /\ apc = "call"
    /\ \E o \in AgentOutcomes(tool_name.v, args) :
          /\ pending' = o
          /\ IF o.kind = "return"
             THEN /\ task' = IF tool_name.v = "read_file" THEN ToolResultTask(o.val)
                             ELSE LoggedTask(o.val)
                  /\ apc' = "ask"
                  /\ shown' = Line("tool_result", o.val)
                  /\ UNCHANGED crash
             ELSE IF o.exc.type = "KeyboardInterrupt"
                  THEN /\ apc' = "crashed"
                       /\ crash' = [exc |-> "KeyboardInterrupt", at |-> "call"]
                       /\ UNCHANGED <<task, shown>>
                  ELSE /\ apc' = "done"
                       /\ shown' = Line("raw_output", reply)
                       /\ UNCHANGED <<task, crash>>
    /\ UNCHANGED <<messages, pc, reply, tool_name, args, choice, openSessions, opened,
                   sent, invoked, requests, snapshot, results, host_did>>
    /\ UNCHANGED <<scanVars, normVars>>

\* time.sleep(2) returns and the loop starts over with the task it had
AgentSleep ==
    /\ apc = "sleep"
    /\ apc' = "ask"
    /\ UNCHANGED <<messages, pc, reply, tool_name, args, choice, crash, pending,
                   openSessions, opened, sent, invoked, requests, snapshot, results,
                   shown, host_did, task>>
    /\ UNCHANGED <<scanVars, normVars>>

NextAgent ==
    \/ AgentAsk
    \/ AgentChatFails
    \/ AgentReceive
    \/ AgentCall
    \/ AgentSleep

SpecAgent == InitAgent /\ [][NextAgent]_vars

(***************************************************************************)
(* The interpreter's claims.                                               *)
(***************************************************************************)
\* The spans of t that json.loads reads as an object.
ValidSpans(t) ==
    {sp \in (1 .. Len(t)) \X (1 .. Len(t)) :
        /\ sp[1] < sp[2]
        /\ t[sp[1]] = LB
        /\ t[sp[2]] = RB
        /\ JsonLoads(SubSeq(t, sp[1], sp[2])).ok}

RECURSIVE BackslashRun(_, _)
\* The number of backslashes that directly precede position i.
BackslashRun(s, i) ==
    IF i > 1 /\ s[i - 1] = BS THEN 1 + BackslashRun(s, i - 1) ELSE 0

\* C7: for a text that is not one JSON value and holds exactly one valid JSON
\* object, _extract_json_object returns that object (the span it parsed is the
\* object's), whatever braces and quotes the prose before it holds; and it
\* returns None only when no span of the text that starts at a "{" parses.
C7_ExtractsTheOnlyObject ==
    xpc = "done" =>
        /\ (~JsonLoads(text).ok /\ Cardinality(ValidSpans(text)) = 1) =>
               \A sp \in ValidSpans(text) :
                   /\ result.t = "obj"
                   /\ cand = sp
                   /\ result = JsonLoads(SubSeq(text, sp[1], sp[2])).val
        /\ result.t = "none" => ValidSpans(text) = {}

\* C7's case: the only object is found although the prose before it holds a
\* quote and a "{" that never closes, which an earlier scan started from.
C7_Witness ==
    /\ xpc = "done"
    /\ ~JsonLoads(text).ok
    /\ ValidSpans(text) = {objAt}
    /\ result.t = "obj"
    /\ cand = objAt
    /\ Find(text, LB, 1) # 0
    /\ Find(text, LB, 1) < objAt[1]
    /\ Find(text, QT, 1) < Find(text, LB, 1)

\* C8: while a candidate is scanned, a character inside a string leaves the
\* depth as it is and a quote after an odd run of backslashes inside a string
\* does not end the string; so the span found from the embedded object's own
\* opening brace ends at its matching closing brace.
C8_StringAwareDepth ==
    /\ [](cand[1] = objAt[1] => cand[2] = objAt[2])
    /\ [][(xpc = "scan" /\ idx <= Len(text) /\ in_string) =>
             /\ depth' = depth
             /\ (text[idx] = QT /\ BackslashRun(text, idx) % 2 = 1) => in_string']_vars

\* C8's case: an object whose string field holds braces and escaped quotes,
\* after some prose, found from its own opening brace.
C8_Witness ==
    /\ xpc = "done"
    /\ objAt[1] > 1
    /\ SubSeq(text, objAt[1], objAt[2]) = ObjJsonInString
    /\ cand = objAt
    /\ result = JsonLoads(ObjJsonInString).val

(***************************************************************************)
(* The session's claims.                                                   *)
(***************************************************************************)
YesWords == {<<"y">>, <<"y", "e", "s">>}
NoWords == {<<"n">>, <<"n", "o">>, << >>}

\* A step in which a line was read at the confirmation prompt.
Answered == pc = "confirm" /\ choice' # choice

\* The tool results recorded in a transcript, in its order.
ResultsIn(msgs) == SelectSeq(msgs, LAMBDA m : m.kind = "tool_result")

\* Message i answers the tool call that message i - 1 holds.
FollowsItsCall(msgs, i) ==
    /\ i > 1
    /\ msgs[i - 1].kind = "reply"
    /\ msgs[i - 1].role = "assistant"
    /\ IsToolCall(msgs[i - 1].val.a)
    /\ msgs[i - 1].val.a.data.v.tool = msgs[i].val.a

\* C1 as stated: a capability is invoked only after the answer "y" or "yes",
\* at most once per reply; "n", "no" or the empty line ends the turn with no
\* invocation; any other answer asks again.
C1_AsStated ==
    [][/\ invoked' > invoked =>
              /\ choice \in YesWords
              /\ invoked' = 1
              /\ IsToolCall(reply) /\ InToolMap(reply.data.v.tool)
       /\ (Answered /\ choice' \in NoWords) =>
              pc' = "input" /\ invoked' = invoked
       /\ (Answered /\ choice' \notin YesWords \cup NoWords) =>
              pc' = "confirm" /\ messages' = messages /\ invoked' = invoked]_vars

\* C1, amended: the same, with the answer compared after str.strip() and
\* str.lower(): "Y" and " Yes " confirm, "N" and a blank line decline.
C1_ConfirmedOnlyOnYes ==
    [][/\ invoked' > invoked =>
              /\ Normalized(choice) \in YesWords
              /\ invoked' = 1
              /\ IsToolCall(reply) /\ InToolMap(reply.data.v.tool)
       /\ (Answered /\ Normalized(choice') \in NoWords) =>
              pc' = "input" /\ invoked' = invoked
       /\ (Answered /\ Normalized(choice') \notin YesWords \cup NoWords) =>
              pc' = "confirm" /\ messages' = messages /\ invoked' = invoked]_vars

\* C1's case: a capability was invoked for the reply, once.
C1_Witness ==
    /\ pc = "spawn"
    /\ invoked = 1
    /\ IsToolCall(reply)

\* C2: a tool-call reply whose name is not a key of TOOL_MAP ends the turn:
\* the transcript gains the reply and the "Unknown tool" notice, and there is
\* no prompt, no session, no invocation and no further request.
C2_UnknownToolEndsTurn ==
    [][(/\ pc = "chat"
        /\ pc' # "chat"
        /\ crash'.at # "chat"
        /\ IsToolCall(reply')
        /\ ~InToolMap(reply'.data.v.tool)) =>
           /\ pc' = "input"
           /\ messages' = messages \o <<AssistantMsg(reply'),
                                        UnknownToolMsg(reply'.data.v.tool)>>
           /\ openSessions' = 0
           /\ invoked' = 0
           /\ requests' = requests]_vars

\* C3: a declined confirmation ends the turn with a "declined" message for
\* that tool call; the message follows the call directly and nothing but a
\* new user turn follows it (no tool result, no further request).
C3_DeclinedEndsTurn ==
    /\ [](\A i \in 1 .. Len(messages) :
              messages[i].kind = "declined" =>
                  /\ FollowsItsCall(messages, i)
                  /\ i < Len(messages) => messages[i + 1].kind = "user_input"
                  /\ i = Len(messages) => pc \in {"input", "exited"})
    /\ [][(Answered /\ Normalized(choice') \in NoWords) =>
              /\ pc' = "input"
              /\ messages' = Append(messages, DeclinedMsg(tool_name))
              /\ requests' = requests
              /\ invoked' = invoked
              /\ openSessions' = 0]_vars

\* C3's case: the confirmation was declined and the turn is over.
C3_Witness ==
    /\ pc = "input"
    /\ Len(messages) > 2
    /\ messages[Len(messages)].kind = "declined"
    /\ Normalized(choice) \in NoWords

C5_ResultFollowsCall ==
    /\ \A i \in 1 .. Len(messages) :
           messages[i].kind = "tool_result" =>
               FollowsItsCall(messages, i) /\ messages[i].role = "user"
    /\ ResultsIn(messages) = results
    /\ pc = "chat" => snapshot = messages /\ ResultsIn(snapshot) = results
    /\ (pc = "request" /\ invoked = 1) =>
           messages[Len(messages)] = results[Len(results)]

\* C5's case: the second request of a turn is out and carries the result of
\* the first round right after its call.
C5_Witness ==
    /\ pc = "chat"
    /\ requests = 2
    /\ Len(results) = 1
    /\ snapshot[Len(snapshot)].kind = "tool_result"
    /\ snapshot[Len(snapshot) - 1].kind = "reply"

C10_ResultsCarryStatus ==
    \A i \in 1 .. Len(messages) :
        messages[i].kind = "tool_result" =>
            LET res == messages[i].val.b.v IN
            /\ res.t = "dict"
            /\ "status" \in DOMAIN res.v
            /\ res.v.status \in {"ok", "error"}
            /\ res.v.status = "error" => "error" \in DOMAIN res.v

\* A known-tool call whose "args" value is absent or not a mapping.
MalformedArgs(r) ==
    /\ IsToolCall(r)
    /\ InToolMap(r.data.v.tool)
    /\ ("args" \in DOMAIN r.data.v => r.data.v.args.t # "dict")

\* C11: for a tool-call reply whose args value is not a mapping, or absent,
\* process_assistant uses the empty mapping for the preview and for the
\* invocation, and no exception leaves process_assistant because of the args.
C11_MalformedArgsBecomeEmpty ==
    MalformedArgs(reply) =>
        /\ args = EmptyDict
        /\ crash.exc \notin {"AttributeError", "TypeError"}

\* An assistant message holding a tool call with no outcome message (result,
\* declined or unknown-tool notice) right after it.
Dangling(msgs) ==
    \E i \in 1 .. Len(msgs) :
        /\ msgs[i].kind = "reply"
        /\ IsToolCall(msgs[i].val.a)
        /\ \/ i = Len(msgs)
           \/ msgs[i + 1].role # "user"
           \/ msgs[i + 1].kind \notin {"tool_result", "declined", "unknown_tool"}

\* C12: an interrupt (KeyboardInterrupt or EOF) at the user-input prompt or at
\* the confirmation prompt is handled, not an exception that leaves main, and
\* leaves no dangling tool call in the transcript.
C12_InterruptLeavesTranscriptWhole ==
    /\ pc = "exited" => ~Dangling(messages)
    /\ ~(pc = "crashed" /\ crash.at \in {"input", "confirm"}
                        /\ crash.exc = "KeyboardInterrupt")

\* A run_command call that passes Python's binding of the arguments and has a
\* timeout that is not positive.
NonPositiveTimeout ==
    /\ tool_name = JStr("run_command")
    /\ args.t = "dict"
    /\ {"command", "timeout"} = DOMAIN args.v
    /\ args.v.timeout <= 0

\* C13: run_command with a timeout <= 0 is rejected before any worker is
\* started or session opened; the rejection is recorded as an error result and
\* the loop goes on to its next request.
C13_TimeoutRejectedAtBoundary ==
    /\ [][(pc = "invoke" /\ NonPositiveTimeout) =>
              /\ pc' = "record"
              /\ pending' = Raised("ValueError", "timeout must be positive")
              /\ opened' = 0 /\ sent' = 0 /\ openSessions' = 0]_vars
    /\ [][(pc = "record" /\ NonPositiveTimeout) =>
              /\ opened = 0 /\ sent = 0
              /\ messages' = Append(messages,
                     ToolResultMsg(tool_name,
                         JDict([status |-> "error",
                                error |-> "timeout must be positive"])))
              /\ pc' = "request"]_vars

\* C13's case: the rejection of a negative timeout was recorded, no session
\* was opened for it, and the next request is out.
C13_Witness ==
    /\ pc = "chat"
    /\ requests = 2
    /\ NonPositiveTimeout
    /\ args.v.timeout < 0
    /\ opened = 0
    /\ messages[Len(messages)] =
           ToolResultMsg(JStr("run_command"),
               JDict([status |-> "error", error |-> "timeout must be positive"]))

\* The scan_port scenario: the reply that is exactly the tool call, the
\* worker's result for an open port, the final reply and its summary.
ScanReply == [whole |-> TRUE, data |-> ToolCall(JStr("scan_port"), GoodArgs["scan_port"])]
ScanOpenResult ==
    JDict([status |-> "ok", host |-> ExampleHost, port |-> 80, open |-> TRUE,
           latency |-> "0.1234"])
Summary == JStr("Port 80 is open.")
SummaryReply == [whole |-> TRUE, data |-> JDict([final |-> Summary])]

\* [system, user turn, assistant raw tool-call reply, user message with the
\* serialised full result]
ScanTranscript(m) ==
    /\ Len(m) = 4
    /\ m[1] = SystemMsg
    /\ m[2].kind = "user_input" /\ m[2].role = "user"
    /\ m[3] = AssistantMsg(ScanReply)
    /\ m[4] = ToolResultMsg(JStr("scan_port"), ScanOpenResult)

\* C14: after a user turn, the reply that is exactly the scan_port call, a
\* yes and the worker's result for an open port, the second request carries
\* [system, user, raw reply, serialised result]; the reply {"final": summary}
\* then ends the loop after exactly two requests, the summary shown and
\* appended last as an assistant message.
C14_ScanPortEndToEnd ==
    /\ [][(pc = "record" /\ requests = 1 /\ reply = ScanReply
             /\ pending = Returned(ScanOpenResult)) =>
              pc' = "request" /\ ScanTranscript(messages')]_vars
    /\ [][(pc = "request" /\ requests = 1 /\ reply = ScanReply
             /\ results = <<ToolResultMsg(JStr("scan_port"), ScanOpenResult)>>) =>
              requests' = 2 /\ pc' = "chat" /\ ScanTranscript(snapshot')]_vars
    /\ [][(pc = "chat" /\ requests = 2 /\ reply = ScanReply
             /\ results = <<ToolResultMsg(JStr("scan_port"), ScanOpenResult)>>
             /\ reply' = SummaryReply) =>
              /\ pc' = "input"
              /\ requests' = 2
              /\ shown' = Line("final", Summary)
              /\ messages' = Append(snapshot,
                     [kind |-> "final", role |-> "assistant",
                      val |-> [a |-> Summary, b |-> NoneVal]])
              /\ invoked' = 0]_vars

\* C14's case: the scenario ran to its end.
C14_Witness ==
    /\ pc = "input"
    /\ requests = 2
    /\ reply = SummaryReply
    /\ Len(messages) = 5
    /\ ScanTranscript(SubSeq(messages, 1, 4))
    /\ messages[5].role = "assistant"
    /\ messages[5].val.a = Summary
    /\ shown = Line("final", Summary)

\* From the confirmation to the recording of the outcome.
Invoking == {"invoke", "spawn", "handshake", "call", "teardown", "record"}

\* The reply was a tool call with a name that is a key of TOOL_MAP.
KnownCall(r) ==
    /\ IsToolCall(r)
    /\ r.data.v.tool.t = "str"
    /\ r.data.v.tool.v \in ToolNames

\* A reply that is a final answer, holds no JSON object, is JSON but not an
\* object, or is an object with neither key.
EndsTurn(r) == r.data.t # "dict" \/ "tool" \notin DOMAIN r.data.v

\* A step of process_assistant that takes the reply in.
TakesReply == pc = "chat" /\ pc' # "chat" /\ crash'.at # "chat"

\* The parts of C15 that do not depend on how an invocation ends: a further
\* request in a turn comes only from the recorded outcome of a confirmed
\* known tool call, and the other kinds of reply end the turn at once.
OnlyConfirmedCallsContinue ==
    /\ [](pc \in Invoking => KnownCall(reply))
    /\ [][(pc' = "request" /\ pc # "request") =>
              \/ pc = "input"
              \/ pc = "record" /\ KnownCall(reply) /\ invoked = 1]_vars
    /\ [][(TakesReply /\ EndsTurn(reply')) =>
              pc' = "input" /\ invoked' = 0 /\ requests' = requests]_vars

\* C15 as stated: another request is issued in the turn if and only if the
\* reply was a known tool call that was confirmed; a final answer, a reply
\* with no JSON object, a JSON value that is no object and an object with
\* neither key end the turn with nothing invoked.
C15_AsStated ==
    /\ OnlyConfirmedCallsContinue
    /\ [][(pc \in Invoking) => pc' \in Invoking \cup {"request"}]_vars

\* C15, amended: as stated, except that a confirmed call whose invocation the
\* user cancels (KeyboardInterrupt) is followed by no request: the exception
\* leaves process_assistant.
C15_RequestIffConfirmedCall ==
    /\ OnlyConfirmedCallsContinue
    /\ [][(pc \in Invoking) =>
              \/ pc' \in Invoking \cup {"request"}
              \/ /\ pc = "record"
                 /\ pending.exc.type = "KeyboardInterrupt"
                 /\ pc' = "crashed"]_vars

\* C15's case: a confirmed call failed and the next request of the turn is out.
C15_Witness ==
    /\ pc = "chat"
    /\ requests = 2
    /\ invoked = 1
    /\ KnownCall(reply)
    /\ Len(results) = 1
    /\ results[1].val.b.v = JDict([status |-> "error", error |-> "Connection closed"])

\* C16: the transcript's first message is the system instructions, every
\* message has role system, user or assistant with only the first being
\* system, and every step only adds messages at the end.
C16_TranscriptAppendOnly ==
    /\ [](/\ Len(messages) >= 1
          /\ messages[1] = SystemMsg
          /\ \A i \in 1 .. Len(messages) :
                 /\ messages[i].role \in {"system", "user", "assistant"}
                 /\ messages[i].role = "system" <=> i = 1)
    /\ [][/\ Len(messages') >= Len(messages)
          /\ SubSeq(messages', 1, Len(messages)) = messages]_vars

\* C16's case: a transcript that grew over two turns, one with a tool round.
C16_Witness ==
    /\ pc = "input"
    /\ requests = 2
    /\ Len(messages) >= 6
    /\ Len(results) = 1

\* What process_assistant serialises: the value the call returned, or the
\* error mapping made from the exception it raised.
Outcome ==
    IF pending.kind = "raise"
    THEN JDict([status |-> "error", error |-> pending.exc.msg])
    ELSE pending.val

\* C18: whichever display form is chosen (stdout, the stdout under "result",
\* or the whole pretty-printed), the message appended to the transcript is
\* the serialisation of the full, unchanged result.
C18_DisplayIsPresentationOnly ==
    [][(pc = "record" /\ pc' = "request") =>
           /\ shown'.kind = "tool"
           /\ shown'.v.display.form \in {"stdout", "inner stdout", "pretty", "text"}
           /\ messages' = Append(messages,
                  [kind |-> "tool_result", role |-> "user",
                   val |-> [a |-> tool_name, b |-> [t |-> "json", v |-> Outcome]]])]_vars

\* C18's case: the stdout nested under "result" was displayed, and the whole
\* result went into the transcript.
C18_Witness ==
    /\ pc = "request"
    /\ shown.kind = "tool"
    /\ shown.v.display.form = "inner stdout"
    /\ shown.v.display.v = "out"
    /\ messages[Len(messages)].kind = "tool_result"
    /\ messages[Len(messages)].val.b.v.t = "dict"
    /\ DOMAIN messages[Len(messages)].val.b.v.v = {"result"}
    /\ "returncode" \in DOMAIN messages[Len(messages)].val.b.v.v.result.v

\* The capabilities that take a timeout argument.
TimeoutTools == {"run_command", "ping_host", "scan_port", "ssh_command"}

TimeoutDiagnostics ==
    {"command timed out after Ns", "ping operation timed out",
     "ssh command timed out after Ns"}

\* C19: for run_command, ping_host, scan_port and ssh_command, an operation
\* that exceeds its timeout comes back as a result with status error and a
\* timeout diagnostic, never as a crash and never with status ok.
C19_TimeoutsAreErrors ==
    (pc = "record" /\ host_did = "timeout" /\ tool_name.v \in TimeoutTools) =>
        /\ pending.kind = "return"
        /\ pending.val.t = "dict"
        /\ "status" \in DOMAIN pending.val.v
        /\ pending.val.v.status = "error"
        /\ "error" \in DOMAIN pending.val.v
        /\ pending.val.v.error \in TimeoutDiagnostics

\* C20: for a ping_host call with a non-empty host and integer count and
\* timeout, the preview's -c and -W values are those of the command the
\* worker runs.
C20_PreviewMatchesPing ==
    (/\ pc = "record"
     /\ tool_name = JStr("ping_host")
     /\ host_did \in {"ok", "nonzero"}
     /\ pending.kind = "return"
     /\ pending.val.t = "dict"
     /\ "command" \in DOMAIN pending.val.v) =>
        /\ PingPreview(args).has
        /\ PingPreview(args).c = pending.val.v.command.c
        /\ PingPreview(args).W = pending.val.v.command.W

\* The assistant-role messages of a transcript.
RECURSIVE AssistantCount(_)
AssistantCount(msgs) ==
    IF msgs = << >> THEN 0
    ELSE (IF Head(msgs).role = "assistant" THEN 1 ELSE 0) + AssistantCount(Tail(msgs))

\* C21: every reply that process_assistant interprets without an exception
\* adds exactly one assistant-role message to the transcript, whether the
\* object is the whole text or found inside prose, and whether it is a tool
\* call, a final answer, an object with neither key, or plain text.
C21_OneAssistantMessagePerReply ==
    [][(pc = "chat" /\ pc' \notin {"chat", "crashed"}) =>
          AssistantCount(messages') = AssistantCount(messages) + 1]_vars

(***************************************************************************)
(* The standalone loop's claims.                                           *)
(***************************************************************************)
\* A reply that is valid JSON but that run_agent has no branch for: an object
\* naming a tool other than read_file and append_log, or an object with
\* neither a tool nor a final key.
Unrecognized(r) ==
    /\ r.whole
    /\ r.data.t = "dict"
    /\ \/ /\ "tool" \in DOMAIN r.data.v
          /\ ~(r.data.v.tool.t = "str" /\ r.data.v.tool.v \in AgentTools)
       \/ /\ "tool" \notin DOMAIN r.data.v
          /\ "final" \notin DOMAIN r.data.v

\* C22: a reply that is valid JSON but names a tool other than read_file and
\* append_log, or has neither a tool nor a final key, ends run_agent's loop;
\* it does not lead to a further model request with the unchanged task.
C22_UnrecognizedReplyEndsLoop ==
    [][(apc = "chat" /\ apc' # "crashed" /\ Unrecognized(reply')) => apc' = "done"]_vars

(***************************************************************************)
(* The bridge's claims.                                                    *)
(***************************************************************************)
\* What the claim says a block is reduced to: its text for a text block or a
\* resource with inline text, a structural dump otherwise.
\* The model_dump() of a whole content block.
BlockDump(block) == [t |-> "dump", v |-> [of |-> "block", src |-> block]]

\* The model_dump() of the resource a block embeds.
ResourceDump(block) == [t |-> "dump", v |-> [of |-> "resource", src |-> block.resource]]

HasInlineText(block) ==
    block.type = "resource" /\ block.resource.has /\ block.resource.text.has

\* A reply the claim is about, normalised.
Normalised == npc = "done" /\ ~wreply.isError /\ ~wreply.structuredContent.has

\* The text of a text block or of a resource with inline text, the block's
\* own dump otherwise.
ReducedAsStated(block) ==
    IF block.type = "text" THEN [t |-> "str", v |-> block.text]
    ELSE IF HasInlineText(block)
         THEN [t |-> "str", v |-> block.resource.text.v]
         ELSE BlockDump(block)

\* As ReducedAsStated, but a resource block whose resource has no inline text
\* is reduced to the dump of the resource alone.
ReducedAsCoded(block) ==
    IF block.type = "resource" /\ block.resource.has /\ ~block.resource.text.has
    THEN ResourceDump(block)
    ELSE ReducedAsStated(block)

\* The value returned for the blocks, vals[i] being block i's reduced value.
Arities(vals) ==
    /\ nresult.kind = "return"
    /\ Len(wreply.content) = 0 => nresult.val = NoneVal
    /\ Len(wreply.content) = 1 => nresult.val = vals[1]
    /\ Len(wreply.content) >= 2 =>
           /\ nresult.val.t = "list"
           /\ Len(nresult.val.v) = Len(wreply.content)
           /\ \A i \in 1 .. Len(wreply.content) : nresult.val.v[i] = vals[i]

\* C9 as stated: for a reply with no error flag and no structured payload,
\* _normalize_result returns None for zero blocks, the one reduced value for
\* one block, and the list of the reduced values in the blocks' order for two
\* or more; a block is reduced to its text (text block, resource with inline
\* text) and to its own full structural form otherwise.
C9_AsStated ==
    Normalised =>
        Arities([i \in 1 .. Len(wreply.content) |-> ReducedAsStated(wreply.content[i])])

\* C9, amended: the same three arities, where a resource block without inline
\* text is reduced to the structural form of its resource, not of the block.
C9_NormalizeArities ==
    Normalised =>
        Arities([i \in 1 .. Len(wreply.content) |-> ReducedAsCoded(wreply.content[i])])

\* C9's case: three blocks of three kinds came back as a list in their order,
\* the text-less resource as the dump of its resource.
C9_Witness ==
    /\ Normalised
    /\ Len(wreply.content) = 3
    /\ wreply.content[1].type = "image"
    /\ wreply.content[2].type = "text"
    /\ wreply.content[3].type = "resource"
    /\ wreply.content[3].resource.has
    /\ ~wreply.content[3].resource.text.has
    /\ nresult.val.t = "list"
    /\ nresult.val.v[2] = [t |-> "str", v |-> wreply.content[2].text]
    /\ nresult.val.v[3] = ResourceDump(wreply.content[3])


\* C17: the error flag comes first and the structured payload second: a reply
\* with the error flag raises whatever else it holds, and a reply without it
\* that holds a structured payload returns that payload unchanged whatever
\* its content blocks.
C17_ErrorThenPayloadThenBlocks ==
    npc = "done" =>
        /\ wreply.isError =>
               nresult = Raised("RuntimeError", "Tool call failed: <dump of the reply>")
        /\ (~wreply.isError /\ wreply.structuredContent.has) =>
               nresult = Returned(wreply.structuredContent.v)

\* C17's case: a reply with the error flag, a payload and blocks raised.
C17_Witness ==
    /\ npc = "done"
    /\ wreply.isError
    /\ wreply.structuredContent.has
    /\ Len(wreply.content) = 2
    /\ nresult.kind = "raise"

====
